---- MODULE Spec2Model ----
(***************************************************************************)
(* MTELib (src/mtelib.h): wrappers around the AArch64 Memory Tagging       *)
(* Extension primitives, and the part of src/test.c that configures the    *)
(* process.                                                                *)
(*                                                                         *)
(* A 64-bit value (pointer, mask, size) is the set of its set bit          *)
(* positions, a subset of 0..63, so that the C bit operators are set       *)
(* operators and no bit is lost to the width of an integer.                *)
(* Memory is one mapped region of NumGranules granules starting at address *)
(* 0: one data value per byte and one allocation tag per granule.          *)
(*                                                                         *)
(* The library is a header of extern inline functions.  Each function is   *)
(* one action: the caller picks the arguments, the action runs the whole   *)
(* body (checks, loops, instructions) and records the call, its outcome    *)
(* and its return value beside the memory as it was before the call.       *)
(* A function whose body cannot be compiled in the chosen configuration    *)
(* has the outcome "build_error".  assert() is taken to be live (NDEBUG    *)
(* not defined).                                                           *)
(***************************************************************************)
EXTENDS Integers, FiniteSets, Sequences, TLC

VARIABLES config, gcrExclude, data, tags, preData, preTags, call, outcome, result

vars == <<config, gcrExclude, data, tags, preData, preTags, call, outcome, result>>

(***************************************************************************)
(* Bounds of the model.                                                    *)
(***************************************************************************)
\* granules of the mapped region
NumGranules == 5
\* largest whole-granule size passed to a bulk operation, in granules
MaxSizeGranules == 3

(***************************************************************************)
(* 64-bit words as sets of bit positions.                                  *)
(***************************************************************************)
Bits64 == 0..63
Bits32 == 0..31

RECURSIVE WFrom(_, _)
\* the bits of n, the lowest of them at position i
WFrom(n, i) ==
    IF n = 0 THEN {}
    ELSE (IF n % 2 = 1 THEN {i} ELSE {}) \cup WFrom(n \div 2, i + 1)

\* the word of a natural number
W(n) == WFrom(n, 0)

RECURSIVE ToNat(_)
\* the number of a word that has no bit above bit 30
ToNat(w) ==
    IF w = {} THEN 0
    ELSE LET i == CHOOSE j \in w : TRUE IN 2^i + ToNat(w \ {i})

And(a, b) == a \cap b
Or(a, b) == a \cup b
Not(a) == Bits64 \ a
Shl(a, k) == {i + k : i \in a} \cap Bits64
Shr(a, k) == {i - k : i \in {j \in a : j >= k}}

\* int (32-bit) operations and the conversion of an int to uint64_t
Shl32(a, k) == {i + k : i \in a} \cap Bits32
Not32(a) == Bits32 \ a
SignExtend32(a) == IF 31 \in a THEN a \cup (32..63) ELSE a

RECURSIVE AddBit(_, _)
\* w + 2^i modulo 2^64
AddBit(w, i) ==
    IF i > 63 THEN w
    ELSE IF i \in w THEN AddBit(w \ {i}, i + 1)
    ELSE w \cup {i}

RECURSIVE AddW(_, _)
\* a + b modulo 2^64
AddW(a, b) ==
    IF b = {} THEN a
    ELSE LET i == CHOOSE j \in b : TRUE IN AddW(AddBit(a, i), b \ {i})

MaxOf(s) == CHOOSE x \in s : \A y \in s : y <= x

\* unsigned a < b
LtW(a, b) ==
    LET d == (a \ b) \cup (b \ a) IN d # {} /\ MaxOf(d) \in b

(***************************************************************************)
(* Constants of the header.                                                *)
(***************************************************************************)
MAX_TAG == 15
TAG_SHIFT == 56
LOG2_TAG_GRANULE_SIZE == 4
GRANULE_SIZE == 2^LOG2_TAG_GRANULE_SIZE
GRANULE_ALIGNMENT_MASK == GRANULE_SIZE - 1
LOG2_DGRANULE_SIZE == 5
DGRANULE_SIZE == 2^LOG2_DGRANULE_SIZE
DGRANULE_ALIGNMENT_MASK == DGRANULE_SIZE - 1

(***************************************************************************)
(* Build configurations.  align is "strict" (default), "relaxed"           *)
(* (MTELIB_RELAXED_ALIGNMENT_CHECKS) or "none"                             *)
(* (MTELIB_NO_ALIGNMENT_CHECKS); the #error lines exclude the rest.        *)
(***************************************************************************)
Configs ==
    {c \in [noTagChecks : BOOLEAN, align : {"strict", "relaxed", "none"},
            noIntrinsics : BOOLEAN, noInlineAsm : BOOLEAN,
            noDGranule : BOOLEAN] :
        ~(c.noIntrinsics /\ c.noInlineAsm)}

\* VERIFY_VALID_TAG: TRUE when the assertion passes or is compiled out
VERIFY_VALID_TAG(cfg, tag) == cfg.noTagChecks \/ tag <= MAX_TAG

\* VERIFY_ALIGNMENT: compiled out unless the configuration is the default
VERIFY_ALIGNMENT(cfg, d, align) ==
    cfg.align # "strict" \/ And(d, W(align)) = {}

\* faulty variant: the critical check defined like the advisory one
VERIFY_ALIGNMENT_CRITICAL_Advisory(cfg, d, align) ==
    cfg.align # "strict" \/ And(d, W(align)) = {}

\* VERIFY_ALIGNMENT_CRITICAL: compiled out only by MTELIB_NO_ALIGNMENT_CHECKS
VERIFY_ALIGNMENT_CRITICAL(cfg, d, align) ==
    cfg.align = "none" \/ And(d, W(align)) = {}

(***************************************************************************)
(* Exclude masks and pointer tags.                                         *)
(***************************************************************************)
\* mask | (1 << tag): the shift is an int shift, converted to uint64_t
excludeMaskAddTag(mask, tag) ==
    Or(mask, SignExtend32(Shl32(W(1), tag)))

\* faulty variant: mask & ~(1U << tag), the complement zero-extended to 64 bits
excludeMaskRemoveTag_Unsigned(mask, tag) ==
    And(mask, Not32(Shl32(W(1), tag)))

\* mask & ~(1 << tag)
excludeMaskRemoveTag(mask, tag) ==
    And(mask, SignExtend32(Not32(Shl32(W(1), tag))))

\* faulty variant: ptr | (tag << TAG_SHIFT), the tag already there not cleared
pointerSetTag_NoClear(ptr, tag) == Or(ptr, Shl(W(tag), TAG_SHIFT))

\* (ptr & ~(MAX_TAG << TAG_SHIFT)) | (tag << TAG_SHIFT)
pointerSetTag(ptr, tag) ==
    Or(And(ptr, Not(Shl(W(MAX_TAG), TAG_SHIFT))), Shl(W(tag), TAG_SHIFT))

\* (ptr >> TAG_SHIFT) & MAX_TAG
pointerGetTag(ptr) == And(Shr(ptr, TAG_SHIFT), W(MAX_TAG))

(***************************************************************************)
(* The machine: memory, allocation tags and the instructions the header    *)
(* emits.  A machine record m carries the memory (data, tags), the         *)
(* registers the loops advance (ptr: the destination, src: the source,     *)
(* low/high: the pair LDP loads) and st, which is "run" until an assertion *)
(* or a fault ends the call.                                               *)
(***************************************************************************)
\* the architecture's tag granule (the header asserts GRANULE_SIZE == 16)
TAG_GRANULE == 16
MemBytes == NumGranules * TAG_GRANULE

\* bits 55..0 address memory; the top byte is ignored by translation
AddressOf(ptr) == ptr \cap (0..55)

\* the logical tag of an address, bits 59..56
AllocationTag(ptr) == ToNat(Shr(ptr, 56) \cap (0..3))

\* the address with its logical tag replaced
AddressWithAllocationTag(ptr, tag) == (ptr \ (56..59)) \cup Shl(W(tag), 56)

\* [ptr, ptr+len) lies in the mapped region
InMemory(ptr, len) ==
    /\ AddressOf(ptr) \subseteq (0..30)
    /\ ToNat(AddressOf(ptr)) + len <= MemBytes

IsTagAligned(ptr) == ptr \cap (0..3) = {}

Fault(m, kind) == [m EXCEPT !.st = kind]

ReadBytes(d, a, n) == [i \in 1..n |-> d[a + i - 1]]

WriteBytes(d, a, bytes) ==
    [x \in DOMAIN d |->
        IF x >= a /\ x < a + Len(bytes) THEN bytes[x - a + 1] ELSE d[x]]

Zeros(n) == [i \in 1..n |-> 0]

\* store the logical tag of ptr as the allocation tag of the granule ptr lies in
StoreTag(m, ptr) ==
    IF m.st # "run" THEN m
    ELSE IF ~InMemory(ptr, 1) THEN Fault(m, "segv")
    ELSE [m EXCEPT !.tags[ToNat(AddressOf(ptr)) \div TAG_GRANULE] =
                        AllocationTag(ptr)]

\* a tag-checked access of len bytes through ptr
CheckedAccess(m, ptr, len) ==
    IF m.st # "run" THEN m
    ELSE IF ~InMemory(ptr, len) THEN Fault(m, "segv")
    ELSE LET a == ToNat(AddressOf(ptr)) IN
         IF \A g \in (a \div TAG_GRANULE)..((a + len - 1) \div TAG_GRANULE) :
                m.tags[g] = AllocationTag(ptr)
         THEN m
         ELSE Fault(m, "tag_check_fault")

(* A tag store to an address that is not granule aligned: the architecture *)
(* raises an Alignment fault ("fault"); the header's comments take STG to  *)
(* round the address down ("align_down").  Both outcomes are modelled.     *)
StgUnaligned == {"fault", "align_down"}

\* __arm_mte_set_tag(p): STG p, [p]
SetTag(hw, m, ptr) ==
    IF m.st # "run" THEN m
    ELSE IF ~IsTagAligned(ptr) /\ hw = "fault" THEN Fault(m, "alignment_fault")
    ELSE StoreTag(m, ptr)

\* STG %0, [%0], #16
STG(hw, m) ==
    LET r == SetTag(hw, m, m.ptr) IN
    IF r.st # "run" THEN r ELSE [r EXCEPT !.ptr = AddW(m.ptr, W(16))]

\* faulty variant: a 32-byte step that tags one granule (STG %0, [%0], #32)
ST2G_OneGranule(hw, m) ==
    LET r == SetTag(hw, m, m.ptr) IN
    IF r.st # "run" THEN r ELSE [r EXCEPT !.ptr = AddW(m.ptr, W(32))]

\* ST2G %0, [%0], #32
ST2G(hw, m) ==
    LET r == SetTag(hw, SetTag(hw, m, m.ptr), AddW(m.ptr, W(16))) IN
    IF r.st # "run" THEN r ELSE [r EXCEPT !.ptr = AddW(m.ptr, W(32))]

\* the zeroing stores: an unaligned address is an Alignment fault
StoreZeroAndTag(m, ptr) ==
    IF m.st # "run" THEN m
    ELSE IF ~IsTagAligned(ptr) THEN Fault(m, "alignment_fault")
    ELSE IF ~InMemory(ptr, TAG_GRANULE) THEN Fault(m, "segv")
    ELSE StoreTag([m EXCEPT !.data = WriteBytes(m.data, ToNat(AddressOf(ptr)),
                                                Zeros(TAG_GRANULE))], ptr)

\* faulty variant: the single granule tagged with STG, its data not zeroed
STZG_NoZero(m) ==
    LET r == StoreTag(m, m.ptr) IN
    IF r.st # "run" THEN r ELSE [r EXCEPT !.ptr = AddW(m.ptr, W(16))]

\* STZG %0, [%0], #16
STZG(m) ==
    LET r == StoreZeroAndTag(m, m.ptr) IN
    IF r.st # "run" THEN r ELSE [r EXCEPT !.ptr = AddW(m.ptr, W(16))]

\* STZ2G %0, [%0], #32
STZ2G(m) ==
    LET r == StoreZeroAndTag(StoreZeroAndTag(m, m.ptr), AddW(m.ptr, W(16))) IN
    IF r.st # "run" THEN r ELSE [r EXCEPT !.ptr = AddW(m.ptr, W(32))]

\* faulty variant: LDP %0, %1, [%2], the source not advanced
LDP_NoWriteback(m) ==
    LET r == CheckedAccess(m, m.src, 16)
        a == ToNat(AddressOf(m.src))
    IN  IF r.st # "run" THEN r
        ELSE [r EXCEPT !.low = ReadBytes(m.data, a, 8),
                       !.high = ReadBytes(m.data, a + 8, 8)]

\* LDP %0, %1, [%2], #16: a tag-checked load of 16 bytes through src
LDP(m) ==
    LET r == CheckedAccess(m, m.src, 16)
        a == ToNat(AddressOf(m.src))
    IN  IF r.st # "run" THEN r
        ELSE [r EXCEPT !.low = ReadBytes(m.data, a, 8),
                       !.high = ReadBytes(m.data, a + 8, 8),
                       !.src = AddW(m.src, W(16))]

\* STGP lo, hi, [ptr], #16: store the pair and the tag of ptr, unchecked
STGP(m) ==
    IF m.st # "run" THEN m
    ELSE IF ~IsTagAligned(m.ptr) THEN Fault(m, "alignment_fault")
    ELSE IF ~InMemory(m.ptr, TAG_GRANULE) THEN Fault(m, "segv")
    ELSE LET a == ToNat(AddressOf(m.ptr))
             r == StoreTag([m EXCEPT !.data = WriteBytes(
                               WriteBytes(m.data, a, m.low), a + 8, m.high)],
                           m.ptr)
         IN  [r EXCEPT !.ptr = AddW(m.ptr, W(16))]

(* out[k] = in[k] on uint64_t pointers: a checked load, then a checked     *)
(* store.  (A source that is not 8-byte aligned is read as the AArch64     *)
(* build reads it, with an unaligned load.)                                *)
CopyWord(m, out, in) ==
    LET l == CheckedAccess(m, in, 8)
        s == CheckedAccess(l, out, 8)
    IN  IF s.st # "run" THEN s
        ELSE [s EXCEPT !.data = WriteBytes(m.data, ToNat(AddressOf(out)),
                                  ReadBytes(m.data, ToNat(AddressOf(in)), 8))]

\* __arm_mte_set_tag(out); out[0] = in[0]; out[1] = in[1]; out += 2; in += 2;
SetTagAndCopyWords(hw, m) ==
    LET t == SetTag(hw, m, m.ptr)
        c == CopyWord(CopyWord(t, m.ptr, m.src),
                      AddW(m.ptr, W(8)), AddW(m.src, W(8)))
    IN  IF c.st # "run" THEN c
        ELSE [c EXCEPT !.ptr = AddW(m.ptr, W(16)), !.src = AddW(m.src, W(16))]

\* __arm_mte_set_tag(out); out += GRANULE_SIZE;
SetTagAndAdvance(hw, m) ==
    LET t == SetTag(hw, m, m.ptr) IN
    IF t.st # "run" THEN t ELSE [t EXCEPT !.ptr = AddW(m.ptr, W(GRANULE_SIZE))]

\* one pass through the body of a loop
Body(kind, hw, m) ==
    CASE kind = "STG" -> STG(hw, m)
      [] kind = "ST2G" -> ST2G(hw, m)
      [] kind = "STZG" -> STZG(m)
      [] kind = "STZ2G" -> STZ2G(m)
      [] kind = "LDP_STGP" -> STGP(LDP(m))
      [] kind = "set_tag" -> SetTagAndAdvance(hw, m)
      [] kind = "set_tag_copy" -> SetTagAndCopyWords(hw, m)

RECURSIVE While(_, _, _, _)
\* while (ptr < end) { body }
While(kind, hw, m, end) ==
    IF m.st = "run" /\ LtW(m.ptr, end)
    THEN While(kind, hw, Body(kind, hw, m), end)
    ELSE m

(***************************************************************************)
(* The bulk operations.                                                    *)
(***************************************************************************)
memoryTag(cfg, hw, m0, ptr, size) ==
    IF ~VERIFY_ALIGNMENT(cfg, ptr, GRANULE_ALIGNMENT_MASK)
       \/ ~VERIFY_ALIGNMENT(cfg, W(size), GRANULE_ALIGNMENT_MASK)
    THEN Fault(m0, "assert")
    ELSE LET end == AddW(ptr, W(size))
             m == [m0 EXCEPT !.ptr = ptr]
         IN  IF ~cfg.noInlineAsm
             THEN IF ~cfg.noDGranule
                  THEN While("ST2G", hw,
                             IF And(W(size), W(DGRANULE_ALIGNMENT_MASK)) # {}
                             THEN STG(hw, m) ELSE m,
                             end)
                  ELSE While("STG", hw, m, end)
             ELSE While("set_tag", hw, m, end)

(* With MTELIB_NO_INLINE_ASSEMBLY the body names src and dst, which the    *)
(* function does not declare: it cannot be compiled.                       *)
memoryTagAndZero(cfg, hw, m0, ptr, size) ==
    IF cfg.noInlineAsm THEN Fault(m0, "build_error")
    ELSE IF ~VERIFY_ALIGNMENT_CRITICAL(cfg, ptr, GRANULE_ALIGNMENT_MASK)
            \/ ~VERIFY_ALIGNMENT_CRITICAL(cfg, W(size), GRANULE_ALIGNMENT_MASK)
    THEN Fault(m0, "assert")
    ELSE LET end == AddW(ptr, W(size))
             m == [m0 EXCEPT !.ptr = ptr]
         IN  IF ~cfg.noDGranule
             THEN While("STZ2G", hw,
                        IF And(W(size), W(DGRANULE_ALIGNMENT_MASK)) # {}
                        THEN STZG(m) ELSE m,
                        end)
             ELSE While("STZG", hw, m, end)

memoryTagAndCopy(cfg, hw, m0, dst, src, size) ==
    IF ~VERIFY_ALIGNMENT_CRITICAL(cfg, dst, GRANULE_ALIGNMENT_MASK)
       \/ ~VERIFY_ALIGNMENT_CRITICAL(cfg, W(size), GRANULE_ALIGNMENT_MASK)
    THEN Fault(m0, "assert")
    ELSE LET end == AddW(dst, W(size))
             m == [m0 EXCEPT !.ptr = dst, !.src = src]
         IN  IF ~cfg.noInlineAsm
             THEN While("LDP_STGP", hw, m, end)
             ELSE While("set_tag_copy", hw, m, end)

(***************************************************************************)
(* The tag generators.                                                     *)
(***************************************************************************)
AllTags == 0..15

(* IRG Xd, Xn, Xm (also what __arm_mte_create_random_tag emits): the tags  *)
(* excluded are bits 15..0 of Xm together with the process's excluded set  *)
(* (GCR_EL1.Exclude); with every tag excluded the tag is 0.                *)
IRGTags(excluded, gcr) ==
    LET exclude == (excluded \cap AllTags) \cup gcr IN
    IF exclude = AllTags THEN {0} ELSE AllTags \ exclude

\* faulty variant: IRG %0, %1, the exclusion operand left out
pointerSetRandomTag_NoExclude(ptr, excluded, gcr) ==
    {AddressWithAllocationTag(ptr, t) : t \in IRGTags({}, gcr)}

\* the pointers a call may return
pointerSetRandomTag(ptr, excluded, gcr) ==
    {AddressWithAllocationTag(ptr, t) : t \in IRGTags(excluded, gcr)}

\* GMI Xd, Xn, Xm: Xm with the bit of Xn's logical tag set
GMI(ptr, mask) == mask \cup {AllocationTag(ptr)}

(***************************************************************************)
(* Callers.  The process sets the tags IRG may generate with prctl         *)
(* (test.c: an include mask of tags 3..14) and maps the region; the mapped *)
(* region is fresh (zero data, zero tags) or already written and tagged.   *)
(***************************************************************************)
GcrExcludes == {{}, {0, 1, 2, 15}}

Granules == 0..(NumGranules - 1)
Bytes == 0..(MemBytes - 1)

DataImages ==
    {[a \in Bytes |-> 0], [a \in Bytes |-> 1 + (a % 255)]}

TagImages ==
    {[g \in Granules |-> 0], [g \in Granules |-> IF g = 1 THEN 8 ELSE 3]}

\* the fresh mapping, and a mapping that was written and tagged
MemoryImages ==
    {<<d, t>> \in DataImages \X TagImages :
        (d = [a \in Bytes |-> 0]) <=> (t = [g \in Granules |-> 0])}

\* a pointer to address a carrying tag t
TaggedPtr(a, t) == W(a) \cup Shl(W(t), 56)

\* arguments callers pass
PtrSamples == {{}, {4, 55, 57, 60, 63}, Bits64, {3, 40, 56, 58}}
MaskSamples ==
    {{}, {0}, {0} \cup (3..14), AllTags, {5, 31, 40}, Bits64 \ {9}}
TagSamples == {0, 3, 7, 9, 15, 16}
\* for pointerSetTag: every tag a pointer may already carry, with and without bits around the field
SetTagPtrs ==
    {f \cup Shl(W(t), 56) : f \in {{}, {0, 4, 55, 60, 63}}, t \in AllTags}
\* for the mask functions: every valid tag and the first invalid one
MaskTags == AllTags \cup {16}
PtrTags == {3, 9}
DstAddrs == {16 * k : k \in 0..(NumGranules - 3)} \cup {1, 24}
SrcAddrs == {0, 8, 33, 16 * (NumGranules - 1)}
SrcTags == {0, 3}
Sizes == {0, 8, 24} \cup {16 * k : k \in 1..MaxSizeGranules}

NoCall == [op |-> "none"]

\* no call has been made yet
Idle == call.op = "none"

Machine(d, t) ==
    [data |-> d, tags |-> t, st |-> "run", ptr |-> {}, src |-> {},
     low |-> <<>>, high |-> <<>>]

Outcome(st) == IF st = "run" THEN "done" ELSE st

Init ==
    /\ config \in Configs
    /\ gcrExclude \in GcrExcludes
    /\ \E im \in MemoryImages : data = im[1] /\ tags = im[2]
    /\ preData = data
    /\ preTags = tags
    /\ call = NoCall
    /\ outcome = "none"
    /\ result = {}

\* a call that touches no memory
Pure(c, ok, r) ==
    /\ call' = c
    /\ outcome' = IF ok THEN "done" ELSE "assert"
    /\ result' = IF ok THEN r ELSE {}
    /\ UNCHANGED <<config, gcrExclude, data, tags, preData, preTags>>

\* a bulk operation that ended with machine m
Bulk(c, m) ==
    /\ call' = c
    /\ outcome' = Outcome(m.st)
    /\ result' = {}
    /\ data' = m.data
    /\ tags' = m.tags
    /\ preData' = data
    /\ preTags' = tags
    /\ UNCHANGED <<config, gcrExclude>>

Call_excludeMaskAddTag ==
    /\ Idle
    /\ \E mask \in MaskSamples, tag \in MaskTags :
            Pure([op |-> "excludeMaskAddTag", mask |-> mask, tag |-> tag],
                 VERIFY_VALID_TAG(config, tag), excludeMaskAddTag(mask, tag))

Call_excludeMaskRemoveTag ==
    /\ Idle
    /\ \E mask \in MaskSamples, tag \in MaskTags :
            Pure([op |-> "excludeMaskRemoveTag", mask |-> mask, tag |-> tag],
                 VERIFY_VALID_TAG(config, tag), excludeMaskRemoveTag(mask, tag))

(* With intrinsics enabled the body calls __arm_mte_exlude_tag, a name     *)
(* arm_acle.h does not declare: the function cannot be built.              *)
Call_excludeMaskAddPtrTag ==
    /\ Idle
    /\ \E mask \in MaskSamples, ptr \in PtrSamples :
            /\ call' = [op |-> "excludeMaskAddPtrTag", mask |-> mask, ptr |-> ptr]
            /\ outcome' = IF config.noIntrinsics THEN "done" ELSE "build_error"
            /\ result' = IF config.noIntrinsics THEN GMI(ptr, mask) ELSE {}
            /\ UNCHANGED <<config, gcrExclude, data, tags, preData, preTags>>

Call_pointerSetTag ==
    /\ Idle
    /\ \E ptr \in SetTagPtrs, tag \in TagSamples :
            Pure([op |-> "pointerSetTag", ptr |-> ptr, tag |-> tag],
                 VERIFY_VALID_TAG(config, tag), pointerSetTag(ptr, tag))

Call_pointerGetTag ==
    /\ Idle
    /\ \E ptr \in PtrSamples :
            Pure([op |-> "pointerGetTag", ptr |-> ptr], TRUE, pointerGetTag(ptr))

Call_pointerSetRandomTag ==
    /\ Idle
    /\ \E ptr \in PtrSamples :
        \E mask \in MaskSamples \cup {excludeMaskAddTag({}, ToNat(pointerGetTag(ptr)))} :
            \E r \in pointerSetRandomTag(ptr, mask, gcrExclude) :
                Pure([op |-> "pointerSetRandomTag", ptr |-> ptr, mask |-> mask],
                     TRUE, r)

Call_memoryTag ==
    /\ Idle
    /\ \E a \in DstAddrs, t \in PtrTags, size \in Sizes, hw \in StgUnaligned :
            LET ptr == TaggedPtr(a, t) IN
            Bulk([op |-> "memoryTag", ptr |-> ptr, size |-> size],
                 memoryTag(config, hw, Machine(data, tags), ptr, size))

Call_memoryTagAndZero ==
    /\ Idle
    /\ \E a \in DstAddrs, t \in PtrTags, size \in Sizes, hw \in StgUnaligned :
            LET ptr == TaggedPtr(a, t) IN
            Bulk([op |-> "memoryTagAndZero", ptr |-> ptr, size |-> size],
                 memoryTagAndZero(config, hw, Machine(data, tags), ptr, size))

Call_memoryTagAndCopy ==
    /\ Idle
    /\ \E a \in DstAddrs, t \in PtrTags, size \in Sizes, hw \in StgUnaligned,
           sa \in SrcAddrs, st \in SrcTags :
            LET dst == TaggedPtr(a, t)
                src == TaggedPtr(sa, st)
            IN  Bulk([op |-> "memoryTagAndCopy", ptr |-> dst, src |-> src,
                      size |-> size],
                     memoryTagAndCopy(config, hw, Machine(data, tags), dst, src,
                                      size))

Next ==
    \/ Call_excludeMaskAddTag
    \/ Call_excludeMaskRemoveTag
    \/ Call_excludeMaskAddPtrTag
    \/ Call_pointerSetTag
    \/ Call_pointerGetTag
    \/ Call_pointerSetRandomTag
    \/ Call_memoryTag
    \/ Call_memoryTagAndZero
    \/ Call_memoryTagAndCopy

Spec == Init /\ [][Next]_vars

(***************************************************************************)
(* What the properties read off a recorded call.                           *)
(***************************************************************************)
IsBulk == call.op \in {"memoryTag", "memoryTagAndZero", "memoryTagAndCopy"}

\* the address and the tag the destination pointer of a bulk call carries
CallAddr == ToNat(AddressOf(call.ptr))
CallTag == ToNat(pointerGetTag(call.ptr))
SrcAddr == ToNat(AddressOf(call.src))

\* the bytes of [a, a+size) and the granules that hold them
RegionBytes(a, size) == a..(a + size - 1)
RegionGranules(a, size) == {b \div 16 : b \in RegionBytes(a, size)}

\* a one-byte access through ptr to memory as it is now
AccessOutcome(ptr) == CheckedAccess(Machine(data, tags), ptr, 1).st

\* the memory a bulk call would leave in configuration cfg, run on the memory before the call
RunIn(cfg, hw) ==
    LET m0 == Machine(preData, preTags) IN
    CASE call.op = "memoryTag" -> memoryTag(cfg, hw, m0, call.ptr, call.size)
      [] call.op = "memoryTagAndZero" ->
            memoryTagAndZero(cfg, hw, m0, call.ptr, call.size)
      [] call.op = "memoryTagAndCopy" ->
            memoryTagAndCopy(cfg, hw, m0, call.ptr, call.src, call.size)

(***************************************************************************)
(* C1.  memoryTag(p, size) with p granule aligned and size a multiple of   *)
(* 16 (0 and odd numbers of granules included), the region mapped: the     *)
(* call returns, every granule of [p, p+size) has the stored tag           *)
(* pointerGetTag(p), so an access through p anywhere in the region matches *)
(* and an access through the same address with any other tag is a tag      *)
(* check fault (tried at the first and the last byte of each granule); no  *)
(* data byte changes and no granule outside the region changes its tag.    *)
(* In every configuration.                                                 *)
(***************************************************************************)
C1_Case ==
    /\ call.op = "memoryTag"
    /\ CallAddr % 16 = 0
    /\ call.size % 16 = 0
    /\ CallAddr + call.size <= MemBytes

\* C1: memoryTag tags exactly the granules of an aligned region and changes nothing else
C1_MemoryTagTagsRegion ==
    C1_Case =>
        /\ outcome = "done"
        /\ \A g \in RegionGranules(CallAddr, call.size) : tags[g] = CallTag
        /\ \A g \in RegionGranules(CallAddr, call.size) :
           \A b \in {16 * g, 16 * g + 15} :
              /\ AccessOutcome(TaggedPtr(b, CallTag)) = "run"
              /\ \A t \in AllTags \ {CallTag} :
                    AccessOutcome(pointerSetTag(TaggedPtr(b, CallTag), t))
                        = "tag_check_fault"
        /\ data = preData
        /\ \A g \in Granules \ RegionGranules(CallAddr, call.size) :
              tags[g] = preTags[g]

\* an odd number of granules through the double-granule path, tags changed
C1_Witness ==
    /\ C1_Case
    /\ call.size = 48
    /\ ~config.noInlineAsm /\ ~config.noDGranule
    /\ outcome = "done"
    /\ \A g \in RegionGranules(CallAddr, call.size) : tags[g] # preTags[g]

(***************************************************************************)
(* C2.  memoryTagAndZero(p, size), inline-assembly build, p granule        *)
(* aligned, size a multiple of 16, the region mapped: the call returns,    *)
(* every byte of [p, p+size) is zero, every granule of it has the stored   *)
(* tag pointerGetTag(p), and no byte and no tag outside it changes; with   *)
(* the double-granule path enabled and disabled.                           *)
(***************************************************************************)
C2_Case ==
    /\ call.op = "memoryTagAndZero"
    /\ ~config.noInlineAsm
    /\ CallAddr % 16 = 0
    /\ call.size % 16 = 0
    /\ CallAddr + call.size <= MemBytes

\* C2: memoryTagAndZero zeroes and tags exactly the aligned region
C2_MemoryTagAndZero ==
    C2_Case =>
        /\ outcome = "done"
        /\ \A b \in RegionBytes(CallAddr, call.size) : data[b] = 0
        /\ \A g \in RegionGranules(CallAddr, call.size) : tags[g] = CallTag
        /\ \A b \in Bytes \ RegionBytes(CallAddr, call.size) :
              data[b] = preData[b]
        /\ \A g \in Granules \ RegionGranules(CallAddr, call.size) :
              tags[g] = preTags[g]

\* an odd number of granules of non-zero data through the double-granule path
C2_Witness ==
    /\ C2_Case
    /\ call.size = 48
    /\ ~config.noDGranule
    /\ outcome = "done"
    /\ \A b \in RegionBytes(CallAddr, call.size) : preData[b] # 0 /\ data[b] = 0

(***************************************************************************)
(* C3.  memoryTagAndCopy(dst, src, size), dst granule aligned, size a      *)
(* multiple of 16, both regions mapped and disjoint, src readable (its tag *)
(* matches the granules it reads): the call returns, the bytes at dst are  *)
(* the bytes that were at src, every granule of [dst, dst+size) has the    *)
(* stored tag pointerGetTag(dst), and no byte and no tag outside           *)
(* [dst, dst+size) changes (the source included).                          *)
(***************************************************************************)
C3_Case ==
    /\ call.op = "memoryTagAndCopy"
    /\ CallAddr % 16 = 0
    /\ call.size % 16 = 0
    /\ CallAddr + call.size <= MemBytes
    /\ SrcAddr + call.size <= MemBytes
    /\ RegionBytes(CallAddr, call.size) \cap RegionBytes(SrcAddr, call.size) = {}
    /\ \A g \in RegionGranules(SrcAddr, call.size) :
          preTags[g] = AllocationTag(call.src)

\* C3: memoryTagAndCopy copies the source to, and tags, exactly the destination region
C3_MemoryTagAndCopy ==
    C3_Case =>
        /\ outcome = "done"
        /\ \A i \in 0..(call.size - 1) :
              data[CallAddr + i] = preData[SrcAddr + i]
        /\ \A g \in RegionGranules(CallAddr, call.size) : tags[g] = CallTag
        /\ \A b \in RegionBytes(SrcAddr, call.size) : data[b] = preData[b]
        /\ \A b \in Bytes \ RegionBytes(CallAddr, call.size) :
              data[b] = preData[b]
        /\ \A g \in Granules \ RegionGranules(CallAddr, call.size) :
              tags[g] = preTags[g]

\* two granules copied from a source that is not granule aligned
C3_Witness ==
    /\ C3_Case
    /\ call.size = 32
    /\ SrcAddr % 16 # 0
    /\ outcome = "done"
    /\ \A i \in 0..(call.size - 1) :
          data[CallAddr + i] # preData[CallAddr + i]

(***************************************************************************)
(* C4.  pointerSetRandomTag(p, m).  As claimed: whenever m excludes fewer  *)
(* than 16 tags, the tag of the result has its bit clear in m, the bits    *)
(* outside the tag field are those of p, with m = excludeMaskAddTag(0,     *)
(* pointerGetTag(p)) the tag differs from p's, and memory is untouched.    *)
(***************************************************************************)
C4_Conclusion ==
    /\ outcome = "done"
    /\ ToNat(pointerGetTag(result)) \notin call.mask
    /\ result \ (56..59) = call.ptr \ (56..59)
    /\ call.mask = excludeMaskAddTag({}, ToNat(pointerGetTag(call.ptr)))
          => pointerGetTag(result) # pointerGetTag(call.ptr)
    /\ data = preData /\ tags = preTags

\* C4 as claimed: a mask that excludes fewer than 16 tags is always honoured
C4_Original ==
    (call.op = "pointerSetRandomTag"
        /\ Cardinality(call.mask \cap AllTags) < 16)
    => C4_Conclusion

(* C4 as amended: the same whenever m together with the tags the process   *)
(* excludes from generation (GCR_EL1.Exclude, set through prctl) excludes  *)
(* fewer than 16 tags.                                                     *)
\* C4 as amended: honoured when the mask and the process exclude fewer than 16 tags together
C4_RandomTagNotExcluded ==
    (call.op = "pointerSetRandomTag"
        /\ Cardinality((call.mask \cap AllTags) \cup gcrExclude) < 16)
    => C4_Conclusion

\* the test's use: the pointer's own tag excluded, another tag generated
C4_Witness ==
    /\ call.op = "pointerSetRandomTag"
    /\ gcrExclude = {0, 1, 2, 15}
    /\ call.ptr = {3, 40, 56, 58}
    /\ call.mask = excludeMaskAddTag({}, 5)
    /\ outcome = "done"
    /\ pointerGetTag(result) = W(7)

(***************************************************************************)
(* C5.  pointerGetTag(pointerSetTag(p, t)) = t for every tag t <= 15 and   *)
(* every p, whatever tag p carries; pointerSetTag changes no bit outside   *)
(* bits 56..59; pointerGetTag returns a value in 0..15.                    *)
(***************************************************************************)
\* C5: pointerSetTag then pointerGetTag gives the tag back; only bits 56..59 change
C5_TagRoundTrip ==
    /\ (call.op = "pointerSetTag" /\ call.tag <= 15) =>
          /\ outcome = "done"
          /\ pointerGetTag(result) = W(call.tag)
          /\ result \ (56..59) = call.ptr \ (56..59)
    /\ call.op = "pointerGetTag" =>
          /\ outcome = "done"
          /\ result \subseteq (0..3)
          /\ ToNat(result) \in 0..15

\* a pointer that carries tag 15 and has bits set all around the field
C5_Witness ==
    /\ call.op = "pointerSetTag"
    /\ call.ptr = {0, 4, 55, 56, 57, 58, 59, 60, 63}
    /\ call.tag = 3
    /\ outcome = "done"
    /\ result = {0, 4, 55, 56, 57, 60, 63}

(***************************************************************************)
(* C6.  With alignment checks not all disabled (default and relaxed), a    *)
(* call of memoryTagAndZero or memoryTagAndCopy with a destination whose   *)
(* low 4 bits are not zero, or a size that is no multiple of 16, ends in   *)
(* the assertion with no data byte and no stored tag changed.  (A function *)
(* that cannot be built is never called.)                                  *)
(***************************************************************************)
C6_Case ==
    /\ call.op \in {"memoryTagAndZero", "memoryTagAndCopy"}
    /\ config.align # "none"
    /\ outcome # "build_error"
    /\ (call.ptr \cap (0..3) # {} \/ call.size % 16 # 0)

\* C6: a misaligned destination or size ends zero+tag and copy+tag in the assertion, memory untouched
C6_CriticalAlignmentAsserts ==
    C6_Case => outcome = "assert" /\ data = preData /\ tags = preTags

\* relaxed checks, a destination misaligned by one byte
C6_Witness ==
    /\ C6_Case
    /\ config.align = "relaxed"
    /\ call.op = "memoryTagAndCopy"
    /\ CallAddr = 1
    /\ call.size = 32
    /\ outcome = "assert"

(***************************************************************************)
(* C7.  As claimed: for each bulk operation and every input that meets its *)
(* preconditions, the build without inline assembly leaves the memory the  *)
(* inline-assembly build leaves from the same memory.                      *)
(***************************************************************************)
C7_Case ==
    /\ IsBulk
    /\ config.noInlineAsm
    /\ CallAddr % 16 = 0
    /\ call.size % 16 = 0
    /\ CallAddr + call.size <= MemBytes
    /\ call.op = "memoryTagAndCopy" =>
          /\ SrcAddr + call.size <= MemBytes
          /\ RegionBytes(CallAddr, call.size)
                \cap RegionBytes(SrcAddr, call.size) = {}
          /\ \A g \in RegionGranules(SrcAddr, call.size) :
                preTags[g] = AllocationTag(call.src)

\* C7 as claimed: the intrinsics build leaves the memory the inline-assembly build leaves
C7_StrategiesInterchangeable ==
    C7_Case =>
        LET ref == RunIn([config EXCEPT !.noInlineAsm = FALSE], "fault") IN
        /\ outcome = Outcome(ref.st)
        /\ data = ref.data
        /\ tags = ref.tags

(***************************************************************************)
(* C8.  For tags t, u <= 15 and every mask m: removing t from              *)
(* excludeMaskAddTag(m, t) clears bit t and leaves every other bit of m;   *)
(* adding t twice is adding it once; adding t then u is adding u then t.   *)
(***************************************************************************)
\* C8: remove after add clears only bit t; add is idempotent and commutes
C8_MaskAlgebra ==
    /\ (call.op = "excludeMaskAddTag" /\ call.tag <= 15) =>
          /\ outcome = "done"
          /\ call.tag \in result
          /\ LET removed == excludeMaskRemoveTag(result, call.tag) IN
                /\ call.tag \notin removed
                /\ removed \ {call.tag} = call.mask \ {call.tag}
          /\ excludeMaskAddTag(result, call.tag) = result
          /\ \A u \in AllTags :
                excludeMaskAddTag(result, u)
                    = excludeMaskAddTag(excludeMaskAddTag(call.mask, u), call.tag)
    /\ (call.op = "excludeMaskRemoveTag" /\ call.tag <= 15) =>
          /\ outcome = "done"
          /\ call.tag \notin result
          /\ result \ {call.tag} = call.mask \ {call.tag}

\* a mask with bits above bit 31, and a tag it does not hold yet
C8_Witness ==
    /\ call.op = "excludeMaskAddTag"
    /\ call.mask = {5, 31, 40}
    /\ call.tag = 9
    /\ outcome = "done"
    /\ result = {5, 9, 31, 40}

(***************************************************************************)
(* C9.  As claimed, read in the builds where the pointer check of          *)
(* memoryTag is advisory (compiled out; the default build asserts):        *)
(* memoryTag(p, size) with size a multiple of 16 and p not granule aligned *)
(* (the granules of the window mapped) returns, every granule that         *)
(* overlaps [p, p+size) has the stored tag pointerGetTag(p), and at most   *)
(* one granule outside the window has its tag changed.                     *)
(***************************************************************************)
\* C9 as claimed: memoryTag through an unaligned pointer returns and covers the window
C9_UnalignedMemoryTag ==
    (/\ call.op = "memoryTag"
     /\ config.align # "strict"
     /\ call.size % 16 = 0
     /\ call.size > 0
     /\ CallAddr % 16 # 0
     /\ RegionGranules(CallAddr, call.size) \subseteq Granules)
    =>
        /\ outcome = "done"
        /\ \A g \in RegionGranules(CallAddr, call.size) : tags[g] = CallTag
        /\ Cardinality({g \in Granules \ RegionGranules(CallAddr, call.size) :
                            tags[g] # preTags[g]}) <= 1

(***************************************************************************)
(* C10.  As claimed: with alignment checks not all disabled (default and   *)
(* relaxed), memoryTag with a size that is no multiple of 16 ends in the   *)
(* assertion with no stored tag changed.                                   *)
(***************************************************************************)
\* C10 as claimed: memoryTag asserts on a size that is no multiple of 16 unless all checks are off
C10_MemoryTagSizeAsserts ==
    (/\ call.op = "memoryTag"
     /\ config.align # "none"
     /\ call.size % 16 # 0)
    => outcome = "assert" /\ tags = preTags

====
